---- MODULE Spec2Model ----
(***************************************************************************)
(* Model of MYP/license_generator.py: the licence key derivation, the      *)
(* input validation and the load / merge / persist pipeline of             *)
(* LicenseGeneratorApp.generate_license, over an explicit file system.     *)
(*                                                                         *)
(* Strings are sequences of tokens.  Every character the code inspects     *)
(* (" ", ":", "-", "/" and the digits of a date) is a token of its own; a  *)
(* run of other characters may be written as one token.                    *)
(***************************************************************************)
EXTENDS Integers, Sequences, FiniteSets, TLC

VARIABLES
    fs,               \* the file system: path -> file content (absent paths are not in the domain)
    dirMode,          \* directory -> "rw" | "ro" | "full" | "missing" | "blocked"
    clock,            \* successive readings of datetime.datetime.now()
    license_key_var,  \* self.license_key_var
    status_var,       \* self.status_var
    license_details,  \* self.license_details (the text widget), as a record or Empty
    log_text,         \* the messages the most recent handler appended to self.log_text
    messagebox,       \* the dialog the most recent handler showed
    run,              \* the locals of the most recent generate_license call
    ledger            \* history: what the generations so far requested and issued

vars == <<fs, dirMode, clock, license_key_var, status_var, license_details,
          log_text, messagebox, run, ledger>>

----------------------------------------------------------------------------
(* Bounds *)

\* number of licence generations that read the clock
MaxClock == 2

----------------------------------------------------------------------------
(* str methods *)

RECURSIVE lstrip(_)
lstrip(s) == IF s # <<>> /\ Head(s) = " " THEN lstrip(Tail(s)) ELSE s

RECURSIVE rstrip(_)
rstrip(s) == IF s # <<>> /\ s[Len(s)] = " " THEN rstrip(SubSeq(s, 1, Len(s) - 1)) ELSE s

strip(s) == rstrip(lstrip(s))

\* s.split(sep): the pieces between the separators; "".split(sep) is [""]
RECURSIVE split_from(_, _, _, _)
split_from(s, sep, i, cur) ==
    IF i > Len(s) THEN <<cur>>
    ELSE IF s[i] = sep THEN <<cur>> \o split_from(s, sep, i + 1, <<>>)
    ELSE split_from(s, sep, i + 1, Append(cur, s[i]))

split(s, sep) == split_from(s, sep, 1, <<>>)

\* s.replace(old, new) for one-character old and new
replace(s, old, new) == [i \in 1..Len(s) |-> IF s[i] = old THEN new ELSE s[i]]

----------------------------------------------------------------------------
(* hashlib *)

\* hashlib.sha256(b).hexdigest()[:16]: the digest is kept symbolic, so two
\* keys are equal exactly when the hashed strings are equal
sha256_hex16(s) == <<"sha256", s>>

md5_hex(s) == <<"md5", s>>

\* a derivation that leaves the customer out of the hashed string
generate_license_key_mac_only(mac_address, customer_name) ==
    sha256_hex16(mac_address)

generate_license_key(mac_address, customer_name) ==
    sha256_hex16(mac_address \o <<":">> \o customer_name)

\* the MAC address check of generate_license
MacParts == 6

\* a check that accepts fewer parts as well
valid_mac_at_most(mac_address) ==
    mac_address # <<>> /\ Len(split(mac_address, ":")) <= MacParts

valid_mac(mac_address) ==
    mac_address # <<>> /\ Len(split(mac_address, ":")) = MacParts

----------------------------------------------------------------------------
(* datetime.datetime.strptime(s, "%Y-%m-%d") *)

Digits == {"0", "1", "2", "3", "4", "5", "6", "7", "8", "9"}

DigitVal(c) ==
    CASE c = "0" -> 0 [] c = "1" -> 1 [] c = "2" -> 2 [] c = "3" -> 3
      [] c = "4" -> 4 [] c = "5" -> 5 [] c = "6" -> 6 [] c = "7" -> 7
      [] c = "8" -> 8 [] c = "9" -> 9

RECURSIVE IntOf(_)
IntOf(s) == IF s = <<>> THEN 0
            ELSE 10 * IntOf(SubSeq(s, 1, Len(s) - 1)) + DigitVal(s[Len(s)])

AllDigits(s) == \A i \in 1..Len(s) : s[i] \in Digits

\* %Y is \d\d\d\d
MatchesY(s) == Len(s) = 4 /\ AllDigits(s)

\* %m is 1[0-2]|0[1-9]|[1-9]
MatchesM(s) ==
    \/ Len(s) = 2 /\ s[1] = "1" /\ s[2] \in {"0", "1", "2"}
    \/ Len(s) = 2 /\ s[1] = "0" /\ s[2] \in Digits \ {"0"}
    \/ Len(s) = 1 /\ s[1] \in Digits \ {"0"}

\* %d is 3[01]|[12]\d|0[1-9]|[1-9]| [1-9]
MatchesD(s) ==
    \/ Len(s) = 2 /\ s[1] = "3" /\ s[2] \in {"0", "1"}
    \/ Len(s) = 2 /\ s[1] \in {"1", "2"} /\ s[2] \in Digits
    \/ Len(s) = 2 /\ s[1] = "0" /\ s[2] \in Digits \ {"0"}
    \/ Len(s) = 1 /\ s[1] \in Digits \ {"0"}
    \/ Len(s) = 2 /\ s[1] = " " /\ s[2] \in Digits \ {"0"}

IsLeap(y) == (y % 4 = 0 /\ y % 100 # 0) \/ y % 400 = 0

DaysInMonth(y, m) ==
    IF m = 2 THEN (IF IsLeap(y) THEN 29 ELSE 28)
    ELSE IF m \in {4, 6, 9, 11} THEN 30 ELSE 31

\* TRUE when strptime returns, FALSE when it raises ValueError
strptime_ok(s) ==
    LET p == split(s, "-") IN
    /\ Len(p) = 3
    /\ MatchesY(p[1]) /\ MatchesM(p[2]) /\ MatchesD(p[3])
    /\ LET y == IntOf(p[1])
           m == IntOf(p[2])
           d == IntOf(lstrip(p[3]))
       IN y >= 1 /\ d <= DaysInMonth(y, m)

expiry_datetime_of(expiry_date) == expiry_date \o <<"T23:59:59">>

----------------------------------------------------------------------------
(* os.path *)

RECURSIVE last_index(_, _)
last_index(s, c) ==
    IF s = <<>> THEN 0
    ELSE IF s[Len(s)] = c THEN Len(s)
    ELSE last_index(SubSeq(s, 1, Len(s) - 1), c)

\* os.path.dirname: everything before the last "/" ("/" itself for a file of the root)
dirname(p) ==
    LET i == last_index(p, "/") IN
    IF i = 0 THEN <<>> ELSE IF i = 1 THEN <<"/">> ELSE SubSeq(p, 1, i - 1)

\* os.path.join(a, b) for a relative b
path_join(a, b) ==
    IF a = <<>> THEN b
    ELSE IF a[Len(a)] = "/" THEN a \o b
    ELSE a \o <<"/">> \o b

\* os.path.normpath: drops empty and "." components and resolves ".."
RECURSIVE norm_comps(_, _)
norm_comps(comps, acc) ==
    IF comps = <<>> THEN acc
    ELSE LET c == Head(comps) IN
         IF c = <<>> \/ c = <<".">> THEN norm_comps(Tail(comps), acc)
         ELSE IF c = <<".", ".">> /\ acc # <<>> /\ acc[Len(acc)] # <<".", ".">>
              THEN norm_comps(Tail(comps), SubSeq(acc, 1, Len(acc) - 1))
         ELSE norm_comps(Tail(comps), Append(acc, c))

RECURSIVE join_comps(_)
join_comps(cs) ==
    IF cs = <<>> THEN <<>>
    ELSE IF Len(cs) = 1 THEN cs[1]
    ELSE cs[1] \o <<"/">> \o join_comps(Tail(cs))

normpath(p) ==
    LET absolute == p # <<>> /\ p[1] = "/"
        cs0 == norm_comps(split(p, "/"), <<>>)
        \* ".." at the root stays at the root
        cs == IF absolute THEN SelectSeq(cs0, LAMBDA c : c # <<".", ".">>) ELSE cs0
        body == join_comps(cs)
    IN IF absolute THEN <<"/">> \o body
       ELSE IF body = <<>> THEN <<".">> ELSE body

----------------------------------------------------------------------------
(* Program constants *)

\* FERNET_KEY
FERNET_KEY == "gT5zX8Kj9LmN2QwP7RvY4SuB6TxA0VcE1UdF3WgH8Jk="

\* os.getcwd()
getcwd == <<"/", "w">>

\* the fallback store: os.path.join(os.getcwd(), "licenses.json")
fallback_path == path_join(getcwd, <<"licenses.json">>)

----------------------------------------------------------------------------
(* cryptography.fernet and json *)

\* Fernet(key).encrypt(data): an authenticated token only the same key opens
fernet_encrypt(key, data) == [key |-> key, data |-> data, intact |-> TRUE]

\* Fernet(key).decrypt(token): [ok, data]; ok is FALSE when InvalidToken is raised
fernet_decrypt(key, token) ==
    IF token.key = key /\ token.intact THEN [ok |-> TRUE, data |-> token.data]
    ELSE [ok |-> FALSE]

\* Python values that json produces: a dict carries its entries, the other
\* types only their type (a list or a string that does not hold the text
\* "encrypted_licenses")
PyDict(entries) == [t |-> "dict", entries |-> entries]
PyList == [t |-> "list"]
PyStr == [t |-> "str"]
PyNone == [t |-> "None"]

\* json.dumps(value): the text of a value
json_dumps(value) == [text |-> "json", value |-> value]

\* json.loads(text): [ok, value]; ok is FALSE when JSONDecodeError is raised
json_loads(text) ==
    IF text.text = "json" THEN [ok |-> TRUE, value |-> text.value]
    ELSE [ok |-> FALSE]

\* text that is no JSON document
NotJson == [text |-> "garbage"]

\* the envelope written by generate_license; has_marker is what
\* "encrypted_licenses" in doc answers
Envelope(token, updated_at) ==
    [t |-> "envelope", encrypted_licenses |-> token,
     format_version |-> "1.0", updated_at |-> updated_at]

\* a test that never finds the marker
has_marker_never(doc) ==
    CASE doc.t \in {"envelope", "dict", "list", "str"} -> "no"
      [] OTHER -> "raise"

\* "encrypted_licenses" in encrypted_data: "yes", "no", or "raise" (TypeError
\* for a value that is no container)
has_marker(doc) ==
    CASE doc.t = "envelope" -> "yes"
      [] doc.t \in {"dict", "list", "str"} -> "no"
      [] OTHER -> "raise"

----------------------------------------------------------------------------
(* The file system *)

\* file contents
File(text) == [k |-> "file", text |-> text]
\* a file left by open(path, "w") whose write then failed
Truncated == [k |-> "file", text |-> [text |-> "truncated"]]
\* a file that can be neither read nor written
Locked == [k |-> "locked"]
\* the customer's summary file
Summary(license_key, customer_name, expiry_date, issue_date) ==
    [k |-> "summary", license_key |-> license_key, customer_name |-> customer_name,
     expiry_date |-> expiry_date, issue_date |-> issue_date]

mode_of(dm, dir) == IF dir \in DOMAIN dm THEN dm[dir] ELSE "missing"

\* os.makedirs(directory, exist_ok=True): [ok, dm]
makedirs(dm, dir) ==
    CASE mode_of(dm, dir) = "blocked" -> [ok |-> FALSE, dm |-> dm]
      [] mode_of(dm, dir) = "missing" ->
            [ok |-> TRUE, dm |-> [d \in DOMAIN dm \cup {dir} |-> IF d = dir THEN "rw" ELSE dm[d]]]
      [] OTHER -> [ok |-> TRUE, dm |-> dm]

\* ensure_directory_exists(file_path)
ensure_directory_exists(dm, file_path) ==
    LET directory == dirname(file_path) IN
    IF directory # <<>> THEN makedirs(dm, directory) ELSE [ok |-> TRUE, dm |-> dm]

put(f, path, content) ==
    [p \in DOMAIN f \cup {path} |-> IF p = path THEN content ELSE f[p]]

\* with open(path, "w") as f: <write content>: [ok, fs].  open fails in a
\* directory that is missing or read-only and on a locked file; on a full
\* device open truncates the file and the write fails
write_file(f, dm, path, content) ==
    LET mode == mode_of(dm, dirname(path)) IN
    CASE mode \in {"missing", "blocked", "ro"} -> [ok |-> FALSE, fs |-> f]
      [] path \in DOMAIN f /\ f[path].k = "locked" -> [ok |-> FALSE, fs |-> f]
      [] mode = "full" -> [ok |-> FALSE, fs |-> put(f, path, Truncated)]
      [] OTHER -> [ok |-> TRUE, fs |-> put(f, path, content)]

\* with open(path, "r") as f: json.load(f): [ok, value]
read_json(f, path) ==
    IF f[path].k = "file" THEN json_loads(f[path].text) ELSE [ok |-> FALSE]

----------------------------------------------------------------------------
(* LicenseGeneratorApp.generate_license *)

\* the license_data dict
license_data(mac_address, customer_name, expiry_datetime, license_key, now) ==
    [mac_address |-> mac_address,
     machine_id |-> md5_hex(mac_address),
     customer_name |-> customer_name,
     expiry_date |-> expiry_datetime,
     license_key |-> license_key,
     issue_date |-> now]

\* the loading of the existing licenses: [licenses, how, log].  how is
\* "absent", "plain", "decrypted", "decrypt_failed" or "load_failed";
\* after_failure is the value licenses has when the decryption failed
load_licenses_with(f, output_path, after_failure) ==
    LET empty == PyDict(<<>>)
        load_failed == [licenses |-> empty, how |-> "load_failed",
                        log |-> <<"Warning: Could not load existing licenses">>]
        decrypt_failed == [licenses |-> after_failure, how |-> "decrypt_failed",
                           log |-> <<"Warning: Could not decrypt existing licenses">>]
    IN
    IF output_path \notin DOMAIN f
    THEN [licenses |-> empty, how |-> "absent", log |-> <<>>]
    ELSE LET encrypted_data == read_json(f, output_path) IN
         IF ~encrypted_data.ok THEN load_failed
         ELSE CASE has_marker(encrypted_data.value) = "raise" -> load_failed
                [] has_marker(encrypted_data.value) = "yes" ->
                     LET decrypted_data ==
                             fernet_decrypt(FERNET_KEY, encrypted_data.value.encrypted_licenses)
                     IN IF ~decrypted_data.ok THEN decrypt_failed
                        ELSE LET parsed == json_loads(decrypted_data.data) IN
                             IF ~parsed.ok THEN decrypt_failed
                             ELSE [licenses |-> parsed.value, how |-> "decrypted", log |-> <<>>]
                [] OTHER ->
                     [licenses |-> encrypted_data.value, how |-> "plain", log |-> <<>>]

\* a loading that leaves licenses unset when the decryption failed
load_licenses_unset(f, output_path) == load_licenses_with(f, output_path, PyNone)

\* licenses = {} before the loading: a failed decryption leaves it empty
load_licenses(f, output_path) == load_licenses_with(f, output_path, PyDict(<<>>))

\* an assignment that starts a new dict
set_item_fresh(licenses, license_key, data) ==
    [ok |-> licenses.t = "dict",
     licenses |-> PyDict([k \in {license_key} |-> data])]

\* licenses[license_key] = license_data: [ok, licenses]; ok is FALSE when the
\* assignment raises TypeError (licenses is no dict)
set_item(licenses, license_key, data) ==
    IF licenses.t = "dict"
    THEN [ok |-> TRUE,
          licenses |-> PyDict([k \in DOMAIN licenses.entries \cup {license_key} |->
                                  IF k = license_key THEN data ELSE licenses.entries[k]])]
    ELSE [ok |-> FALSE]

\* output_data: the envelope of the encrypted json.dumps(licenses)
output_data_of(licenses, now) ==
    File(json_dumps(Envelope(fernet_encrypt(FERNET_KEY, json_dumps(licenses)), now)))

\* a fallback that adds the records the fallback file already holds
save_store_merging(f, dm, output_path, output_data) ==
    LET first == write_file(f, dm, output_path, output_data)
        mine == output_data.text.value.encrypted_licenses.data.value.entries
        theirs == load_licenses(f, fallback_path).licenses
        kept == IF theirs.t = "dict" THEN theirs.entries ELSE <<>>
        both == [k \in DOMAIN mine \cup DOMAIN kept |->
                    IF k \in DOMAIN mine THEN mine[k] ELSE kept[k]]
        merged_data ==
            File(json_dumps(Envelope(fernet_encrypt(FERNET_KEY, json_dumps(PyDict(both))),
                                     output_data.text.value.updated_at)))
    IN
    IF first.ok
    THEN [ok |-> TRUE, fs |-> first.fs, output_path |-> output_path,
          log |-> <<"Encrypted license data saved to">>,
          attempts |-> <<output_path>>]
    ELSE LET second == write_file(first.fs, dm, fallback_path, merged_data) IN
         [ok |-> second.ok, fs |-> second.fs, output_path |-> fallback_path,
          log |-> <<"Error saving license file">> \o
                  (IF second.ok THEN <<"License saved to fallback location">> ELSE <<>>),
          attempts |-> <<output_path, fallback_path>>]

\* the writing of the store: [ok, fs, output_path, log, attempts].  ok is
\* FALSE when the write at the fallback location raises
save_store(f, dm, output_path, output_data) ==
    LET first == write_file(f, dm, output_path, output_data) IN
    IF first.ok
    THEN [ok |-> TRUE, fs |-> first.fs, output_path |-> output_path,
          log |-> <<"Encrypted license data saved to">>,
          attempts |-> <<output_path>>]
    ELSE LET second == write_file(first.fs, dm, fallback_path, output_data) IN
         [ok |-> second.ok, fs |-> second.fs, output_path |-> fallback_path,
          log |-> <<"Error saving license file">> \o
                  (IF second.ok THEN <<"License saved to fallback location">> ELSE <<>>),
          attempts |-> <<output_path, fallback_path>>]

customer_filename_of(customer_name) == replace(customer_name, " ", "_") \o <<"_license.txt">>

\* the writing of the customer's summary file: [ok, fs, log, written]
save_customer_file(f, dm, output_path, customer_name, summary) ==
    LET customer_filename == customer_filename_of(customer_name)
        customer_license_path == path_join(dirname(output_path), customer_filename)
        first == write_file(f, dm, customer_license_path, summary)
    IN
    IF first.ok
    THEN [ok |-> TRUE, fs |-> first.fs, log |-> <<"Customer license file saved to">>,
          written |-> customer_license_path]
    ELSE LET customer_fallback_path == path_join(getcwd, customer_filename)
             second == write_file(first.fs, dm, customer_fallback_path, summary)
         IN [ok |-> second.ok, fs |-> second.fs,
             log |-> <<"Warning: Could not create customer license file">> \o
                     (IF second.ok
                      THEN <<"Customer license file saved to fallback location">> ELSE <<>>),
             written |-> customer_fallback_path]

\* the validation of the four fields: "ok" or the field that is rejected
validate(mac_address, customer_name, expiry_date, output_path) ==
    CASE ~valid_mac(mac_address) -> "mac"
      [] customer_name = <<>> -> "customer"
      [] ~strptime_ok(expiry_date) -> "expiry"
      [] output_path = <<>> -> "path"
      [] OTHER -> "ok"

InputErrorText(field) ==
    CASE field = "mac" -> "Invalid MAC address format. Please use format xx:xx:xx:xx:xx:xx"
      [] field = "customer" -> "Customer name cannot be empty."
      [] field = "expiry" -> "Invalid date format. Please use YYYY-MM-DD format."
      [] field = "path" -> "Output file path cannot be empty."

Blank == [text |-> "empty"]

\* the history kept for the properties: the keys derived for each (machine
\* identifier, customer name) pair, the paths requested by the generations
\* that reached the writing of the store, whether one of them used the
\* fallback location, whether one of them did not end in success, and the
\* record most recently issued to each pair by a successful generation
NoLedger ==
    [keys |-> <<>>, paths |-> {}, fell_back |-> FALSE, unfinished |-> FALSE, issued |-> <<>>]

Derived(led, pair, license_key) ==
    [led EXCEPT !.keys = [q \in DOMAIN led.keys \cup {pair} |->
                            IF q = pair
                            THEN (IF q \in DOMAIN led.keys THEN led.keys[q] ELSE {})
                                     \cup {license_key}
                            ELSE led.keys[q]]]

Attempted(led, requested, fell_back) ==
    [led EXCEPT !.paths = @ \cup {requested}, !.fell_back = @ \/ fell_back]

Unfinished(led) == [led EXCEPT !.unfinished = TRUE]

Issued(led, pair, data) ==
    [led EXCEPT !.issued = [q \in DOMAIN led.issued \cup {pair} |->
                              IF q = pair THEN data ELSE led.issued[q]]]

\* the state a handler leaves
Leave(f, dm, clk, key, status, details, log, box, r, led) ==
    /\ fs' = f
    /\ dirMode' = dm
    /\ clock' = clk
    /\ license_key_var' = key
    /\ status_var' = status
    /\ license_details' = details
    /\ log_text' = log
    /\ messagebox' = box
    /\ run' = r
    /\ ledger' = led

\* the except clause around the whole handler
Failed(f, dm, clk, log, r, led) ==
    Leave(f, dm, clk, license_key_var, "Error", license_details,
          log \o <<"Error generating license">>,
          <<"showerror", "Error", "Failed to generate license">>, r, led)

GenerateLicense(mac_var, customer_var, expiry_var, output_path_var) ==
    LET mac_address == strip(mac_var)
        customer_name == strip(customer_var)
        expiry_date == strip(expiry_var)
        verdict == validate(mac_address, customer_name, expiry_date, strip(output_path_var))
        inputs == [mac_address |-> mac_address, customer_name |-> customer_name,
                   expiry_date |-> expiry_date, output_path |-> strip(output_path_var)]
    IN
    IF verdict # "ok"
    THEN Leave(fs, dirMode, clock, license_key_var, "Generating license...",
               license_details, <<>>,
               <<"showerror", "Input Error", InputErrorText(verdict)>>,
               [result |-> "input_error", field |-> verdict, inputs |-> inputs],
               ledger)
    ELSE
    LET requested == normpath(strip(output_path_var))
        made == ensure_directory_exists(dirMode, requested)
    IN
    IF ~made.ok
    THEN Leave(fs, dirMode, clock, license_key_var, "Generating license...",
               license_details, <<"Error creating directory for">>,
               <<"showerror", "Error", "Could not create directory">>,
               [result |-> "mkdir_error", inputs |-> inputs, requested |-> requested],
               ledger)
    ELSE
    /\ clock <= MaxClock
    /\ LET now == clock
           license_key == generate_license_key(mac_address, customer_name)
           data == license_data(mac_address, customer_name,
                                expiry_datetime_of(expiry_date), license_key, now)
           loaded == load_licenses(fs, requested)
           merged == set_item(loaded.licenses, license_key, data)
           r0 == [inputs |-> inputs, requested |-> requested, license_key |-> license_key,
                  license_data |-> data, how |-> loaded.how, base |-> loaded.licenses]
           pair == <<mac_address, customer_name>>
           led0 == Derived(ledger, pair, license_key)
       IN
       IF ~merged.ok
       THEN Failed(fs, made.dm, clock + 1, loaded.log,
                   [result |-> "error", at |-> "merge"] @@ r0, led0)
       ELSE
       LET output_data == output_data_of(merged.licenses, now)
           saved == save_store(fs, made.dm, requested, output_data)
           r1 == [licenses |-> merged.licenses, output_data |-> output_data,
                  store_attempts |-> saved.attempts,
                  fallback_before |-> IF fallback_path \in DOMAIN fs
                                      THEN fs[fallback_path] ELSE Blank] @@ r0
           led1 == Attempted(led0, requested, Len(saved.attempts) > 1)
       IN
       IF ~saved.ok
       THEN Failed(saved.fs, made.dm, clock + 1, loaded.log \o saved.log,
                   [result |-> "error", at |-> "store"] @@ r1, Unfinished(led1))
       ELSE
       LET noted == save_customer_file(saved.fs, made.dm, saved.output_path, customer_name,
                                       Summary(license_key, customer_name, expiry_date, now))
           r2 == [output_path |-> saved.output_path] @@ r1
       IN
       IF ~noted.ok
       THEN Failed(noted.fs, made.dm, clock + 1, loaded.log \o saved.log \o noted.log,
                   [result |-> "error", at |-> "summary"] @@ r2, Unfinished(led1))
       ELSE Leave(noted.fs, made.dm, clock + 1, license_key,
                  "License generated successfully",
                  [mac_address |-> mac_address, customer_name |-> customer_name,
                   expiry_date |-> expiry_date, issue_date |-> now,
                   output_file |-> saved.output_path],
                  loaded.log \o saved.log \o noted.log \o
                      <<"Using hardcoded encryption key.">>,
                  <<"showinfo", "Success", "License generated successfully!">>,
                  [result |-> "success", summary_path |-> noted.written] @@ r2,
                  Issued(led1, pair, data))

----------------------------------------------------------------------------
(* The values the fields are filled with and the files found on disk *)

Mac1 == <<"aa", ":", "bb", ":", "cc", ":", "dd", ":", "ee", ":", "ff">>
Mac2 == <<":", ":", ":", ":", ":">>
MacShort == <<"aa", ":", "bb", ":", "cc", ":", "dd", ":", "ee">>
Padded(s) == <<" ">> \o s \o <<" ">>

Al == <<"Al">>
AB == <<"A", " ", "B">>
\* a customer whose name holds a path separator
AS == <<"A", "/", "S">>

Date1 == <<"2", "0", "2", "5", "-", "0", "1", "-", "0", "1">>
Date2 == <<"2", "0", "2", "4", "-", "2", "-", "2", "9">>
DateDayFirst == <<"0", "1", "-", "0", "1", "-", "2", "0", "2", "5">>
DateFeb30 == <<"2", "0", "2", "5", "-", "0", "2", "-", "3", "0">>

DataDir == <<"/", "d">>
DataPath == path_join(DataDir, <<"licenses.json">>)
DataPathDotted == <<"/", "d", "/", ".", "/", "licenses.json">>

\* a record issued before the model starts
OldRecord(mac_address, customer_name) ==
    license_data(mac_address, customer_name, expiry_datetime_of(Date2),
                 generate_license_key(mac_address, customer_name), 0)

OldStore(mac_address, customer_name) ==
    PyDict([k \in {generate_license_key(mac_address, customer_name)} |->
               OldRecord(mac_address, customer_name)])

\* a store in either format
PlainFile == File(json_dumps(OldStore(Mac1, Al)))
EnvelopeFile == output_data_of(OldStore(Mac1, Al), 0)
StoreFiles == { PlainFile, EnvelopeFile }

\* envelopes the configured key does not open: a token under another key and
\* a token whose bytes were altered
WrongKeyFile ==
    File(json_dumps(Envelope(fernet_encrypt("another key", json_dumps(OldStore(Mac1, Al))), 0)))
CorruptTokenFile ==
    File(json_dumps(Envelope([fernet_encrypt(FERNET_KEY, json_dumps(OldStore(Mac1, Al)))
                                  EXCEPT !.intact = FALSE], 0)))
UndecryptableFiles == { WrongKeyFile, CorruptTokenFile }

\* an envelope whose token opens to text that is no JSON
GarbageTokenFile == File(json_dumps(Envelope(fernet_encrypt(FERNET_KEY, NotJson), 0)))

\* JSON that is no mapping, directly or inside the envelope
NonMappingFiles ==
    { File(json_dumps(PyList)), File(json_dumps(PyStr)), output_data_of(PyList, 0),
      output_data_of(PyStr, 0), output_data_of(PyNone, 0) }

\* files the loading fails on: no JSON, JSON null, a token of no JSON, a file
\* that cannot be opened
UnloadableFiles == { File(NotJson), File(json_dumps(PyNone)), GarbageTokenFile, Locked }

\* a store at the fallback path holding a record no other store holds
FallbackOnlyFile == File(json_dumps(OldStore(Mac2, AB)))

\* the state after construction, over a file system with the given directory
\* modes and at most one of the given files at each store path
InitWith(cwdModes, dataModes, dataFiles, fallbackFiles) ==
    /\ \E cm \in cwdModes, dm \in dataModes :
          dirMode = [d \in {getcwd, DataDir} |-> IF d = getcwd THEN cm ELSE dm]
    /\ \E data \in SUBSET dataFiles, fb \in SUBSET fallbackFiles :
          /\ Cardinality(data) <= (IF dirMode[DataDir] \in {"missing", "blocked"} THEN 0 ELSE 1)
          /\ Cardinality(fb) <= 1
          /\ fs = [p \in {q \in {DataPath} : data # {}} \cup {q \in {fallback_path} : fb # {}} |->
                      IF p = DataPath THEN CHOOSE x \in data : TRUE
                      ELSE CHOOSE x \in fb : TRUE]
    /\ clock = 1
    /\ license_key_var = <<>>
    /\ status_var = "Ready to generate license"
    /\ license_details = Blank
    /\ log_text = <<"Detected MAC Address">>
    /\ messagebox = <<"none", "", "">>
    /\ run = [result |-> "none"]
    /\ ledger = NoLedger

\* the Generate License button, with the fields filled from the given sets
NextWith(macs, customers, expiries, paths) ==
    \E mac_var \in macs, customer_var \in customers,
       expiry_var \in expiries, output_path_var \in paths :
        GenerateLicense(mac_var, customer_var, expiry_var, output_path_var)

----------------------------------------------------------------------------
(* Spec: valid requests against stores in both formats, with a data        *)
(* directory that is writable or read-only                                 *)

Init ==
    InitWith({"rw"}, {"rw", "ro"}, StoreFiles, {FallbackOnlyFile})

Next ==
    NextWith({Padded(Mac1), Mac2}, {Al, AB}, {Date1, Padded(Date2)},
             {DataPathDotted, fallback_path})

Spec == Init /\ [][Next]_vars

(* SpecLoad: valid requests against every kind of file at the data path *)

InitLoad ==
    InitWith({"rw"}, {"rw"},
             StoreFiles \cup UndecryptableFiles \cup NonMappingFiles \cup UnloadableFiles,
             {FallbackOnlyFile})

NextLoad ==
    NextWith({Mac1}, {Al, AB}, {Date1}, {DataPath, fallback_path})

SpecLoad == InitLoad /\ [][NextLoad]_vars

(* SpecDisk: valid requests against every combination of directory modes *)

InitDisk ==
    InitWith({"rw", "ro", "full"}, {"rw", "ro", "full", "missing", "blocked"},
             {PlainFile, Locked}, {FallbackOnlyFile})

NextDisk ==
    NextWith({Mac1}, {Al, AS}, {Date1}, {DataPath, fallback_path})

SpecDisk == InitDisk /\ [][NextDisk]_vars

(* SpecInput: valid and invalid values in every field *)

InitInput ==
    InitWith({"rw"}, {"rw", "missing", "blocked"}, {EnvelopeFile}, {})

NextInput ==
    NextWith({<<" ">>, <<>>, MacShort, Padded(Mac1)}, {<<" ">>, Padded(Al)},
             {Date1, Padded(Date2), DateDayFirst, DateFeb30},
             {<<" ">>, Padded(DataPathDotted)})

SpecInput == InitInput /\ [][NextInput]_vars

----------------------------------------------------------------------------
(* Reading a store file, for the properties *)

IsJsonFile(c) == c.k = "file" /\ c.text.text = "json"
IsEnvelopeFile(c) == IsJsonFile(c) /\ c.text.value.t = "envelope"
IsPlainMappingFile(c) == IsJsonFile(c) /\ c.text.value.t = "dict"

\* an envelope whose token the configured key opens to a mapping
IsCompleteEnvelope(c) ==
    /\ IsEnvelopeFile(c)
    /\ c.text.value.encrypted_licenses.key = FERNET_KEY
    /\ c.text.value.encrypted_licenses.intact
    /\ c.text.value.encrypted_licenses.data.text = "json"
    /\ c.text.value.encrypted_licenses.data.value.t = "dict"

\* an envelope whose token the configured key does not open
IsUndecryptable(c) ==
    /\ IsEnvelopeFile(c)
    /\ \/ c.text.value.encrypted_licenses.key # FERNET_KEY
       \/ ~c.text.value.encrypted_licenses.intact

HoldsStore(c) == IsPlainMappingFile(c) \/ IsCompleteEnvelope(c)

\* the mapping licenseKey -> record a store file holds
Entries(c) ==
    IF IsPlainMappingFile(c) THEN c.text.value.entries
    ELSE c.text.value.encrypted_licenses.data.value.entries

\* the store at a path: empty when there is no file
LoadsCleanly(f, path) == path \notin DOMAIN f \/ HoldsStore(f[path])
PriorEntries(f, path) == IF path \in DOMAIN f THEN Entries(f[path]) ELSE <<>>

SamePath(f, g, path) ==
    IF path \in DOMAIN f THEN path \in DOMAIN g /\ g[path] = f[path]
    ELSE path \notin DOMAIN g

Handled(r) == r.result \in {"success", "error"}
StorePersisted(r) == r.result = "success" \/ (r.result = "error" /\ r.at = "summary")

\* P is S with the entry under k set to data
IsUpdateOf(P, S, k, data) ==
    /\ DOMAIN P = DOMAIN S \cup {k}
    /\ P[k] = data
    /\ \A j \in DOMAIN S \ {k} : P[j] = S[j]
    /\ Cardinality(DOMAIN P) =
           IF k \in DOMAIN S THEN Cardinality(DOMAIN S) ELSE Cardinality(DOMAIN S) + 1

----------------------------------------------------------------------------
(* The claims *)

\* C1: a successful generation whose prior store S loaded without error
\* persists S with exactly the entry under the new key k changed: k maps to
\* the new record, every other key of S keeps its record, and the number of
\* entries is unchanged when k was a key of S and one more otherwise.
C1_MergeChangesOneKey ==
    [][ (run'.result = "success" /\ LoadsCleanly(fs, run'.requested)) =>
            /\ HoldsStore(fs'[run'.output_path])
            /\ IsUpdateOf(Entries(fs'[run'.output_path]), PriorEntries(fs, run'.requested),
                          run'.license_key, run'.license_data) ]_vars

\* C1 witness: a generation overwrote the record of its key in a decrypted
\* store of two entries
C1_Witness ==
    /\ run.result = "success"
    /\ run.how = "decrypted"
    /\ Cardinality(DOMAIN run.base.entries) = 2
    /\ run.license_key \in DOMAIN run.base.entries
    /\ run.base.entries[run.license_key] # run.license_data
    /\ Cardinality(DOMAIN Entries(fs[run.output_path])) = 2

\* C2: when the file at the output path is an envelope the configured key
\* does not open (another key, altered ciphertext), the generation logs a
\* warning, starts from the empty store and completes successfully, and the
\* persisted store holds exactly the one new record.
C2_UndecryptableStartsEmpty ==
    [][ (Handled(run') /\ run'.requested \in DOMAIN fs /\ IsUndecryptable(fs[run'.requested])) =>
            /\ run'.result = "success"
            /\ run'.how = "decrypt_failed"
            /\ \E i \in 1..Len(log_text') :
                   log_text'[i] = "Warning: Could not decrypt existing licenses"
            /\ IsCompleteEnvelope(fs'[run'.output_path])
            /\ IsUpdateOf(Entries(fs'[run'.output_path]), <<>>,
                          run'.license_key, run'.license_data) ]_vars

\* C2 witness: a generation for another customer succeeded over an envelope
\* written under another key, which held one record
C2_Witness ==
    /\ run.result = "success"
    /\ run.how = "decrypt_failed"
    /\ run.inputs.customer_name = AB
    /\ run.output_path = DataPath
    /\ DOMAIN Entries(fs[DataPath]) = {run.license_key}

CannotWrite(f, dm, path) ==
    \/ mode_of(dm, dirname(path)) \in {"ro", "full", "blocked"}
    \/ path \in DOMAIN f /\ f[path].k = "locked"

\* C3: whenever the store cannot be written at the requested path (a
\* permission or path error, a directory that cannot be created) and the
\* fallback location is writable, the generation ends with the complete
\* merged store at the fallback location, reports success and reports the
\* fallback path as its output path, the fallback being attempted once.
\* Stated for the customer whose summary file can be written.
C3_FallbackWhenUnwritable ==
    [][ ( /\ run'.result \in {"mkdir_error", "success", "error"}
          /\ run'.inputs.customer_name = Al
          /\ run'.requested # fallback_path
          /\ CannotWrite(fs, dirMode, run'.requested)
          /\ ~CannotWrite(fs, dirMode, fallback_path) ) =>
            /\ run'.result = "success"
            /\ run'.store_attempts = <<run'.requested, fallback_path>>
            /\ run'.output_path = fallback_path
            /\ license_details'.output_file = fallback_path
            /\ fs'[fallback_path] = run'.output_data
            /\ status_var' = "License generated successfully" ]_vars

\* C4 (first part): every pair of trimmed machine identifier and trimmed
\* customer name has one key, whatever else the request held, and the keys
\* of two pairs differ.
C4_KeyOfPairOnly ==
    /\ \A q \in DOMAIN ledger.keys : Cardinality(ledger.keys[q]) = 1
    /\ \A q1, q2 \in DOMAIN ledger.keys : q1 # q2 => ledger.keys[q1] \cap ledger.keys[q2] = {}

\* the store at path holds exactly one entry for each pair issued, the record
\* of the most recent generation for that pair
OneEntryPerPair(path) ==
    /\ path \in DOMAIN fs
    /\ HoldsStore(fs[path])
    /\ \A q \in DOMAIN ledger.issued :
          LET E == Entries(fs[path])
              mine == {k \in DOMAIN E : E[k].mac_address = q[1] /\ E[k].customer_name = q[2]}
          IN /\ Cardinality(mine) = 1
             /\ \A k \in mine : E[k] = ledger.issued[q]

C5_LoadRecoversStore ==
    [][ /\ (run.result = "success" /\ Handled(run') /\ run'.requested = run.output_path) =>
               (run'.how = "decrypted" /\ run'.base = run.licenses)
        /\ (Handled(run') /\ run'.requested \in DOMAIN fs
                /\ IsPlainMappingFile(fs[run'.requested])) =>
               /\ run'.how = "plain"
               /\ run'.base = fs[run'.requested].text.value
               /\ run'.result = "success"
               /\ \A j \in DOMAIN run'.base.entries \ {run'.license_key} :
                      /\ j \in DOMAIN Entries(fs'[run'.output_path])
                      /\ Entries(fs'[run'.output_path])[j] = run'.base.entries[j] ]_vars

\* C5 witness: a generation loaded the two records its predecessor encoded,
\* the first of which came from a plain mapping
C5_Witness ==
    /\ run.result = "success"
    /\ run.how = "decrypted"
    /\ run.requested = fallback_path
    /\ Cardinality(DOMAIN run.base.entries) = 2
    /\ generate_license_key(Mac2, AB) \in DOMAIN run.base.entries
    /\ run.base.entries[generate_license_key(Mac2, AB)] = OldRecord(Mac2, AB)
    /\ Cardinality(DOMAIN Entries(fs[fallback_path])) = 3

\* C6: when the file at the output path cannot be read, is no JSON, or
\* parses (directly or after decryption) to something that is no mapping,
\* the generation logs a warning, starts from the empty store and completes
\* successfully with the new record persisted.
C6_UnusablePriorStartsEmpty ==
    [][ (Handled(run') /\ run'.requested \in DOMAIN fs
            /\ fs[run'.requested] \in NonMappingFiles \cup UnloadableFiles) =>
            /\ run'.result = "success"
            /\ run'.base = PyDict(<<>>)
            /\ \E i \in 1..Len(log_text') :
                   log_text'[i] \in {"Warning: Could not decrypt existing licenses",
                                     "Warning: Could not load existing licenses"}
            /\ IsCompleteEnvelope(fs'[run'.output_path])
            /\ Entries(fs'[run'.output_path])[run'.license_key] = run'.license_data ]_vars

\* C7: once the store is persisted the generation reports success, the key
\* shown and the status set, whether or not the summary file could be written
\* at its primary or at its fallback location.
C7_SummaryNeverFatal ==
    StorePersisted(run) =>
        /\ run.result = "success"
        /\ license_key_var = run.license_key
        /\ status_var = "License generated successfully"

CountOf(s, c) == Cardinality({i \in 1..Len(s) : s[i] = c})

\* the requests C8 calls invalid
InvalidRequest(i) ==
    \/ i.mac_address = <<>>
    \/ CountOf(i.mac_address, ":") # MacParts - 1
    \/ i.customer_name = <<>>
    \/ i.expiry_date \in {DateDayFirst, DateFeb30}
    \/ i.output_path = <<>>

\* C8: a request with an invalid field is rejected with an input error and
\* has no effect (no directory created, no file written, the key shown
\* unchanged), and every request that passes validation stores the expiry as
\* the given date followed by T23:59:59.
C8_InvalidInputHasNoEffect ==
    [][ run'.result # "none" =>
            /\ InvalidRequest(run'.inputs) <=> run'.result = "input_error"
            /\ run'.result = "input_error" =>
                   /\ fs' = fs /\ dirMode' = dirMode
                   /\ license_key_var' = license_key_var
                   /\ license_details' = license_details
                   /\ messagebox'[1] = "showerror" /\ messagebox'[2] = "Input Error"
            /\ Handled(run') =>
                   run'.license_data.expiry_date = run'.inputs.expiry_date \o <<"T23:59:59">>
            /\ run'.result = "success" =>
                   Entries(fs'[run'.output_path])[run'.license_key].expiry_date =
                       run'.inputs.expiry_date \o <<"T23:59:59">> ]_vars

\* C8 witness: after a licence was generated and shown, a request with an
\* empty output path was rejected and the key shown is still that licence's
C8_Witness ==
    /\ run.result = "input_error"
    /\ run.field = "path"
    /\ run.inputs.expiry_date = Date2
    /\ license_key_var = generate_license_key(Mac1, Al)
    /\ license_details.expiry_date = Date1

\* C9: no write of a store file begins before the merged store is computed,
\* and at every point, also after a failed write, the store file at each path
\* holds its previous content or one complete merged envelope.
C9_NoPartialStoreFile ==
    [][ /\ (run'.result = "error" /\ run'.at = "merge") => fs' = fs
        /\ \A path \in {DataPath, fallback_path} :
               \/ SamePath(fs, fs', path)
               \/ IsCompleteEnvelope(fs'[path]) ]_vars

\* C10: when the write at the requested path fails and the fallback location
\* is used, the fallback file becomes the store loaded from the requested
\* path plus the new record: no record that was only in the fallback file
\* before is in it afterwards.
C10_FallbackIsReplaced ==
    [][ ( /\ StorePersisted(run')
          /\ run'.store_attempts = <<run'.requested, fallback_path>>
          /\ run'.requested # fallback_path
          /\ LoadsCleanly(fs, run'.requested) ) =>
            /\ HoldsStore(fs'[fallback_path])
            /\ IsUpdateOf(Entries(fs'[fallback_path]), PriorEntries(fs, run'.requested),
                          run'.license_key, run'.license_data)
            /\ \A j \in DOMAIN (IF LoadsCleanly(fs, fallback_path)
                                THEN PriorEntries(fs, fallback_path) ELSE <<>>) :
                   (j \notin DOMAIN PriorEntries(fs, run'.requested) /\ j # run'.license_key)
                       => j \notin DOMAIN Entries(fs'[fallback_path]) ]_vars

\* C10 witness: the fallback file held a record of its own before a
\* generation fell back to it, and does not hold it afterwards
C10_Witness ==
    /\ run.result = "success"
    /\ run.store_attempts = <<DataPath, fallback_path>>
    /\ run.fallback_before = FallbackOnlyFile
    /\ run.license_key # generate_license_key(Mac2, AB)
    /\ generate_license_key(Mac2, AB) \notin DOMAIN Entries(fs[fallback_path])
    /\ Cardinality(DOMAIN Entries(fs[fallback_path])) = 2

====
